---- MODULE Spec2Model ----
(***************************************************************************)
(* Voxel-Space (src/src/main.rs): the camera's motion (main's key handler  *)
(* and Camera::update) and the column ray-march renderer (Camera::draw)    *)
(* over a TerrainMap.                                                      *)
(*                                                                         *)
(* f32 values are carried as their IEEE-754 binary32 bit pattern, written  *)
(* as a signed integer: the magnitude bits (exponent field and fraction),  *)
(* negated for a negative number.  The integer order of these codes is the *)
(* order of the floats they stand for, and every arithmetic operator below *)
(* rounds to nearest, ties to even, as the hardware does.                  *)
(***************************************************************************)
EXTENDS Integers, Sequences, FiniteSets, TLC

(***************************************************************************)
(* binary32 arithmetic                                                     *)
(***************************************************************************)
Abs(a) == IF a < 0 THEN -a ELSE a

Sgn(a) == IF a < 0 THEN -1 ELSE 1

Hidden == 2^23

F32Inf == 255 * Hidden

\* biased exponent, a subnormal's being 1
F32Exp(a) == IF Abs(a) \div Hidden = 0 THEN 1 ELSE Abs(a) \div Hidden

\* significand with the hidden bit: |a| = F32Man(a) * 2^(F32Exp(a) - 150)
F32Man(a) ==
    IF Abs(a) \div Hidden = 0 THEN Abs(a) % Hidden ELSE (Abs(a) % Hidden) + Hidden

\* m shifted right by d bits, the bits shifted out or-ed into the lowest bit
ShiftRightSticky(m, d) ==
    IF d <= 0 THEN m
    ELSE IF d >= 30 THEN (IF m # 0 THEN 1 ELSE 0)
    ELSE LET q == m \div (2^d)
         IN  IF m % (2^d) # 0 /\ q % 2 = 0 THEN q + 1 ELSE q

RECURSIVE NormLeft(_, _, _)
\* <<e, m>> with m shifted left until it has 27 bits or e reaches `floor`
NormLeft(e, m, floor) ==
    IF m >= 2^26 \/ e <= floor \/ m = 0 THEN <<e, m>>
    ELSE NormLeft(e - 1, m * 2, floor)

\* The float nearest to sign * m * 2^(e - 153): m carries three extra bits
\* (guard, round, sticky) below the 24-bit significand, m < 2^28.
RoundPack(sign, e, m) ==
    IF m = 0 THEN 0
    ELSE
    LET up  == IF m >= 2^27 THEN <<e + 1, ShiftRightSticky(m, 1)>> ELSE <<e, m>>
        lo  == IF up[1] < 1
               THEN <<1, ShiftRightSticky(up[2], 1 - up[1])>>
               ELSE NormLeft(up[1], up[2], 1)
        q   == lo[2] \div 8
        low == lo[2] % 8
        r   == IF low > 4 \/ (low = 4 /\ q % 2 = 1) THEN q + 1 ELSE q
        bits == IF lo[1] >= 255 THEN F32Inf ELSE (lo[1] - 1) * Hidden + r
    IN  sign * (IF bits >= F32Inf THEN F32Inf ELSE bits)

F32Add(a, b) ==
    LET big   == IF Abs(a) >= Abs(b) THEN a ELSE b
        small == IF Abs(a) >= Abs(b) THEN b ELSE a
        mb    == F32Man(big) * 8
        ms    == ShiftRightSticky(F32Man(small) * 8, F32Exp(big) - F32Exp(small))
    IN  IF Sgn(a) = Sgn(b) \/ small = 0
        THEN RoundPack(Sgn(big), F32Exp(big), mb + ms)
        ELSE RoundPack(Sgn(big), F32Exp(big), mb - ms)

F32Neg(a) == -a

F32Sub(a, b) == F32Add(a, F32Neg(b))

RECURSIVE NormIn(_, _)
\* a subnormal's <<e, m>> rescaled so that m has its hidden bit
NormIn(e, m) ==
    IF m >= Hidden \/ m = 0 THEN <<e, m>> ELSE NormIn(e - 1, m * 2)

F32Mul(a, b) ==
    LET na == NormIn(F32Exp(a), F32Man(a))
        nb == NormIn(F32Exp(b), F32Man(b))
        ah == na[2] \div 4096
        al == na[2] % 4096
        bh == nb[2] \div 4096
        bl == nb[2] % 4096
        \* the 48-bit product as hi * 2^24 + lo
        mid  == ah * bl + al * bh
        losm == (mid % 4096) * 4096 + al * bl
        lo   == losm % (2^24)
        hi   == ah * bh + mid \div 4096 + losm \div (2^24)
        m    == hi * 8 + lo \div (2^21)
        st   == IF lo % (2^21) # 0 /\ m % 2 = 0 THEN m + 1 ELSE m
    IN  IF a = 0 \/ b = 0 THEN 0
        ELSE RoundPack(Sgn(a) * Sgn(b), na[1] + nb[1] - 126, st)

RECURSIVE LongDiv(_, _, _, _)
\* n more quotient bits of r / d, r < d: <<quotient, remainder>>
LongDiv(q, r, d, n) ==
    IF n = 0 THEN <<q, r>>
    ELSE IF 2 * r >= d THEN LongDiv(2 * q + 1, 2 * r - d, d, n - 1)
    ELSE LongDiv(2 * q, 2 * r, d, n - 1)

F32Div(a, b) ==
    LET na == NormIn(F32Exp(a), F32Man(a))
        nb == NormIn(F32Exp(b), F32Man(b))
        qr == LongDiv(na[2] \div nb[2], na[2] % nb[2], nb[2], 26)
        m  == IF qr[2] # 0 /\ qr[1] % 2 = 0 THEN qr[1] + 1 ELSE qr[1]
    IN  IF b = 0 THEN Sgn(a) * F32Inf
        ELSE IF a = 0 THEN 0
        ELSE RoundPack(Sgn(a) * Sgn(b), na[1] - nb[1] + 127, m)

\* `n as f32` for an unsigned n below 2^24 (exact)
IntToF32(n) == RoundPack(1, 150, n * 8)

\* `a as usize`: truncation toward zero, a negative number saturating to 0.
\* Exact below 2^30, the range every float of this model stays in.
F32ToUsize(a) ==
    IF a <= 0 THEN 0
    ELSE IF F32Exp(a) >= 157 THEN 2^30
    ELSE IF F32Exp(a) >= 150 THEN F32Man(a) * 2^(F32Exp(a) - 150)
    ELSE IF F32Exp(a) <= 126 THEN 0
    ELSE F32Man(a) \div (2^(150 - F32Exp(a)))

(***************************************************************************)
(* Constants of main.rs.  The screen, the byte range, the far clip, the    *)
(* start position and the map are scaled down together; the relations the  *)
(* code relies on are kept: BYTE_MAX < SCREEN_HEIGHT (255 < 480), and      *)
(* B < SCREEN_WIDTH (2 < 640).                                             *)
(***************************************************************************)
SCREEN_WIDTH == 4

SCREEN_HEIGHT == 6

\* u8::MAX, the 0xFF of line 239
BYTE_MAX == 4

\* Camera::new's far_clip
FAR_CLIP == 4

\* Camera::new's position[X] and position[Y]
START_POS == 1

\* the decoded images' width and height
MAP_WIDTH == 4

MAP_HEIGHT == 2

\* the height byte of the flat terrain
FLAT_HEIGHT == 2

MaxTicks == 10

MaxKeyEvents == 1

MotionTicks == 30

HoldTicks == 200

MaxUpdates == 160

MaxDraws == 1

R == 0

G == 1

B == 2

A == 3

X == 0

Y == 1

Z == 2

\* SKY_BLUE as the bytes of a cleared frame
SkyPixel ==
    <<(43 * BYTE_MAX) \div 100, (82 * BYTE_MAX) \div 100, BYTE_MAX, BYTE_MAX>>

KeyCodes == {"KeyW", "KeyA", "KeyS", "KeyD", "KeyQ", "KeyE"}

\* the damping factor mistyped as 0.99
DAMPING_099 == F32Div(IntToF32(99), IntToF32(100))

\* the literal 0.9 of Camera::update
DAMPING == F32Div(IntToF32(9), IntToF32(10))

(***************************************************************************)
(* TerrainMap                                                              *)
(***************************************************************************)
\* DynamicImage::to_rgba8().into_vec(): the texels row by row, four bytes
\* each; img[t] is the RGBA texel number t = width * y + x
IntoVec(img, w, h) ==
    [i \in 0..(4 * w * h - 1) |-> img[i \div 4][(i % 4) + 1]]

TerrainMap_new(color_map_img, height_map_img) ==
    [map_dimensions |-> [i \in 0..1 |-> IF i = X THEN MAP_WIDTH ELSE MAP_HEIGHT],
     color_map      |-> IntoVec(color_map_img, MAP_WIDTH, MAP_HEIGHT),
     height_map     |-> IntoVec(height_map_img, MAP_WIDTH, MAP_HEIGHT)]

Texels == 0..(MAP_WIDTH * MAP_HEIGHT - 1)

\* the map files: a flat terrain of one colour; a terrain whose first texel
\* holds a spike of the largest height before a low sample; a varied one
FlatColorImg == [t \in Texels |-> <<1, 2, 3, BYTE_MAX>>]

FlatHeightImg == [t \in Texels |-> <<FLAT_HEIGHT, FLAT_HEIGHT, FLAT_HEIGHT, FLAT_HEIGHT>>]

VariedColorImg ==
    [t \in Texels |-> <<(t + 1) % (BYTE_MAX + 1), (2 * t + 2) % (BYTE_MAX + 1),
                        (3 * t + 3) % (BYTE_MAX + 1), BYTE_MAX>>]

SpikeHeightImg ==
    [t \in Texels |-> IF t = 0 THEN <<BYTE_MAX, BYTE_MAX, 1, BYTE_MAX>>
                      ELSE <<1 + (t % BYTE_MAX), 1 + (t % BYTE_MAX), 1 + (t % BYTE_MAX), BYTE_MAX>>]

VariedHeightImg ==
    [t \in Texels |-> <<(BYTE_MAX + 1 - (t % (BYTE_MAX + 1))) % (BYTE_MAX + 1),
                        (3 + 2 * t) % (BYTE_MAX + 1),
                        (2 + 3 * t) % (BYTE_MAX + 1), BYTE_MAX>>]

MapFiles ==
    {<<FlatColorImg, FlatHeightImg>>,
     <<VariedColorImg, SpikeHeightImg>>,
     <<VariedColorImg, VariedHeightImg>>}

(***************************************************************************)
(* Camera                                                                  *)
(***************************************************************************)
\* Camera::new with an acceleration of 0.5
Camera_new_fast ==
    [velocity     |-> [i \in 0..2 |-> IntToF32(0)],
     position     |-> [i \in 0..2 |-> IF i = Z THEN IntToF32(0) ELSE IntToF32(START_POS)],
     rotation     |-> [i \in 0..1 |-> IntToF32(0)],
     far_clip     |-> IntToF32(FAR_CLIP),
     acceleration |-> F32Div(IntToF32(1), IntToF32(2)),
     max_speed    |-> IntToF32(5)]

Camera_new ==
    [velocity     |-> [i \in 0..2 |-> IntToF32(0)],
     position     |-> [i \in 0..2 |-> IF i = Z THEN IntToF32(0) ELSE IntToF32(START_POS)],
     rotation     |-> [i \in 0..1 |-> IntToF32(0)],
     far_clip     |-> IntToF32(FAR_CLIP),
     acceleration |-> F32Div(IntToF32(1), IntToF32(4)),
     max_speed    |-> IntToF32(5)]

\* update's loop body with the clamp applied to both signs
update_axis_symmetric(cam, i) ==
    LET clamped == IF cam.velocity[i] > cam.max_speed THEN cam.max_speed
                   ELSE IF cam.velocity[i] < F32Neg(cam.max_speed)
                   THEN F32Neg(cam.max_speed) ELSE cam.velocity[i]
        damped  == F32Mul(clamped, DAMPING)
    IN  [cam EXCEPT !.velocity[i] = damped,
                    !.position[i] = F32Add(cam.position[i], damped)]

\* one pass of update's loop body over axis i
update_axis(cam, i) ==
    LET clamped == IF cam.velocity[i] > cam.max_speed
                   THEN cam.max_speed ELSE cam.velocity[i]
        damped  == F32Mul(clamped, DAMPING)
    IN  [cam EXCEPT !.velocity[i] = damped,
                    !.position[i] = F32Add(cam.position[i], damped)]

\* update without the damping of line 160
update_undamped(cam) ==
    LET step(c, i) ==
            LET clamped == IF c.velocity[i] > c.max_speed
                           THEN c.max_speed ELSE c.velocity[i]
            IN  [c EXCEPT !.velocity[i] = clamped,
                          !.position[i] = F32Add(c.position[i], clamped)]
    IN  step(step(step(cam, 0), 1), 2)

update(cam) == update_axis(update_axis(update_axis(cam, 0), 1), 2)

\* main's key handling: each held key adds or subtracts acceleration
Accelerate(cam, keys, code, axis, sign) ==
    IF code \in keys
    THEN [cam EXCEPT !.velocity[axis] =
              F32Add(cam.velocity[axis], sign * cam.acceleration)]
    ELSE cam

KeysHeld(cam, keys) ==
    LET w == Accelerate(cam, keys, "KeyW", 2, 1)
        a == Accelerate(w, keys, "KeyA", 0, -1)
        s == Accelerate(a, keys, "KeyS", 2, -1)
        d == Accelerate(s, keys, "KeyD", 0, 1)
        q == Accelerate(d, keys, "KeyQ", 1, -1)
    IN  Accelerate(q, keys, "KeyE", 1, 1)

VARIABLES camera, terrain_map, held, frame, pc, new_frame, screen_x, ray_z,
          ray_pos, delta_pos, max_projected_height, map_offset,
          height_on_screen, ticks, key_events, draws

vars == <<camera, terrain_map, held, frame, pc, new_frame, screen_x, ray_z,
          ray_pos, delta_pos, max_projected_height, map_offset,
          height_on_screen, ticks, key_events, draws>>

locals == <<new_frame, screen_x, ray_z, ray_pos, delta_pos,
            max_projected_height, map_offset, height_on_screen>>

FrameLen == SCREEN_WIDTH * SCREEN_HEIGHT * 4

\* the pixel buffer of Pixels::new, cleared to SKY_BLUE
ClearedFrame == [i \in 0..(FrameLen - 1) |-> SkyPixel[(i % 4) + 1]]

\* draw's locals while draw is not running
NoLocals ==
    /\ new_frame = <<>>
    /\ screen_x = 0
    /\ ray_z = 0
    /\ ray_pos = <<>>
    /\ delta_pos = <<>>
    /\ max_projected_height = 0
    /\ map_offset = 0
    /\ height_on_screen = 0

NoLocalsNext ==
    /\ new_frame' = <<>>
    /\ screen_x' = 0
    /\ ray_z' = 0
    /\ ray_pos' = <<>>
    /\ delta_pos' = <<>>
    /\ max_projected_height' = 0
    /\ map_offset' = 0
    /\ height_on_screen' = 0

\* the locals of main before the event loop runs, lines 56-70; keys_down are
\* the keys the input helper reports as held
Start(keys_down, files) ==
    /\ camera = Camera_new
    /\ terrain_map = TerrainMap_new(files[1], files[2])
    /\ held = keys_down
    /\ frame = ClearedFrame
    /\ pc = "idle"
    /\ NoLocals
    /\ ticks = 0
    /\ key_events = 0
    /\ draws = 0

\* a key goes down or up between two polls of the input helper
KeyEvent ==
    /\ pc = "idle"
    /\ key_events < MaxKeyEvents
    /\ \E k \in KeyCodes : held' = IF k \in held THEN held \ {k} ELSE held \cup {k}
    /\ key_events' = key_events + 1
    /\ UNCHANGED <<camera, terrain_map, frame, pc, locals, ticks, draws>>

\* input.update(&event) returned true: lines 90-122
Tick(limit) ==
    /\ pc = "idle"
    /\ ticks < limit
    /\ camera' = update(KeysHeld(camera, held))
    /\ ticks' = ticks + 1
    /\ UNCHANGED <<terrain_map, held, frame, pc, locals, key_events, draws>>

(***************************************************************************)
(* Camera::draw, one action per step of its loops                          *)
(***************************************************************************)
\* left_far and right_far, lines 171-181
left_far(cam) ==
    [i \in 0..1 |-> IF i = X THEN F32Sub(IntToF32(0), cam.far_clip) ELSE cam.far_clip]

right_far(cam) == [i \in 0..1 |-> cam.far_clip]

\* delta_pos of column sx, lines 186-190
DeltaPos(cam, sx) ==
    [i \in 0..1 |->
        F32Div(F32Add(left_far(cam)[i],
                      F32Mul(F32Div(F32Sub(right_far(cam)[i], left_far(cam)[i]),
                                    IntToF32(SCREEN_WIDTH)),
                             IntToF32(sx))),
               cam.far_clip)]

\* map_offset, lines 206-207
MapOffset(tm, pos) ==
    tm.map_dimensions[X] * F32ToUsize(pos[Y]) + F32ToUsize(pos[X])

RECURSIVE PaintRows(_, _, _, _, _)
\* the loop of lines 214-220 from row screen_y on
PaintRows(nf, tm, off, screen_y, h) ==
    IF screen_y >= h THEN nf
    ELSE LET pixel_index == SCREEN_WIDTH * screen_y
         IN  PaintRows([nf EXCEPT ![pixel_index + R] = tm.color_map[off + R],
                                  ![pixel_index + G] = tm.color_map[off + G],
                                  ![pixel_index + B] = tm.color_map[off + B]],
                       tm, off, screen_y + 1, h)

\* the copy taking each pixel's R, G and B from three bytes of new_frame
CopyFrame_rgb(fr, nf) ==
    [j \in DOMAIN fr |-> IF j % 4 = A THEN BYTE_MAX ELSE nf[3 * (j \div 4) + (j % 4)]]

\* the copy of lines 232-240
CopyFrame(fr, nf) ==
    [j \in DOMAIN fr |-> IF j % 4 = A THEN BYTE_MAX ELSE nf[j \div 4]]

\* a RedrawRequested event: draw is entered, lines 165-181
DrawBegin ==
    /\ pc = "idle"
    /\ draws < MaxDraws
    /\ new_frame' = [j \in 0..(FrameLen * 3 - 1) |-> 0]
    /\ screen_x' = 0
    /\ pc' = "column"
    /\ UNCHANGED <<camera, terrain_map, held, frame, ray_z, ray_pos, delta_pos,
                   max_projected_height, map_offset, height_on_screen,
                   ticks, key_events, draws>>

\* the head of the loop over screen_x, lines 184-201
ColumnBegin ==
    /\ pc = "column"
    /\ screen_x < SCREEN_WIDTH
    /\ delta_pos' = DeltaPos(camera, screen_x)
    /\ ray_pos' = [i \in 0..1 |-> camera.position[i]]
    /\ max_projected_height' = SCREEN_HEIGHT
    /\ ray_z' = 1
    /\ pc' = "sample"
    /\ UNCHANGED <<camera, terrain_map, held, frame, new_frame, screen_x,
                   map_offset, height_on_screen, ticks, key_events, draws>>

\* lines 203-208: the ray advances and the height is read; an index past the
\* raster's end panics
Sample ==
    /\ pc = "sample"
    /\ ray_z < F32ToUsize(camera.far_clip)
    /\ ray_pos' = [i \in 0..1 |-> IF i = X THEN F32Add(ray_pos[X], delta_pos[X])
                                  ELSE F32Sub(ray_pos[Y], delta_pos[Y])]
    /\ map_offset' = MapOffset(terrain_map, ray_pos')
    /\ IF map_offset' \in DOMAIN terrain_map.height_map
       THEN /\ height_on_screen' = terrain_map.height_map[map_offset']
            /\ pc' = "test"
       ELSE /\ height_on_screen' = height_on_screen
            /\ pc' = "panicked"
    /\ UNCHANGED <<camera, terrain_map, held, frame, new_frame, screen_x, ray_z,
                   delta_pos, max_projected_height, ticks, key_events, draws>>

\* the test with <= for <
Visible_le(h, max_h) == h <= max_h

\* the test of line 212
Visible(h, max_h) == h < max_h

\* lines 212-222: the occlusion test and the painting of rows [0, height)
Paint ==
    /\ pc = "test"
    /\ IF Visible(height_on_screen, max_projected_height)
       THEN IF height_on_screen > 0
               /\ map_offset + B \notin DOMAIN terrain_map.color_map
            THEN /\ pc' = "panicked"
                 /\ UNCHANGED <<new_frame, max_projected_height, ray_z>>
            ELSE /\ new_frame' = PaintRows(new_frame, terrain_map, map_offset,
                                           0, height_on_screen)
                 /\ max_projected_height' = height_on_screen
                 /\ ray_z' = ray_z + 1
                 /\ pc' = "sample"
       ELSE /\ ray_z' = ray_z + 1
            /\ pc' = "sample"
            /\ UNCHANGED <<new_frame, max_projected_height>>
    /\ UNCHANGED <<camera, terrain_map, held, frame, screen_x, ray_pos,
                   delta_pos, map_offset, height_on_screen, ticks, key_events,
                   draws>>

\* the march of one column is over: ray_z reached far_clip
ColumnEnd ==
    /\ pc = "sample"
    /\ ray_z >= F32ToUsize(camera.far_clip)
    /\ screen_x' = screen_x + 1
    /\ ray_z' = 0
    /\ ray_pos' = <<>>
    /\ delta_pos' = <<>>
    /\ max_projected_height' = 0
    /\ map_offset' = 0
    /\ height_on_screen' = 0
    /\ pc' = "column"
    /\ UNCHANGED <<camera, terrain_map, held, frame, new_frame, ticks,
                   key_events, draws>>

\* lines 231-241: new_frame is copied into the framebuffer and draw returns
Composite ==
    /\ pc = "column"
    /\ screen_x >= SCREEN_WIDTH
    /\ frame' = CopyFrame(frame, new_frame)
    /\ NoLocalsNext
    /\ pc' = "idle"
    /\ draws' = draws + 1
    /\ UNCHANGED <<camera, terrain_map, held, ticks, key_events>>

(***************************************************************************)
(* The program: the keys that went down before the first poll of the input *)
(* stay held, every poll ticks the camera, every redraw request runs draw. *)
(***************************************************************************)
Init == \E keys_down \in SUBSET KeyCodes, files \in MapFiles : Start(keys_down, files)

Next ==
    \/ Tick(MaxTicks)
    \/ DrawBegin
    \/ ColumnBegin
    \/ Sample
    \/ Paint
    \/ ColumnEnd
    \/ Composite

Spec == Init /\ [][Next]_vars

(***************************************************************************)
(* The camera's motion alone, under keys that go down and up.              *)
(***************************************************************************)
InitMotion == Start({}, <<FlatColorImg, FlatHeightImg>>)

NextMotion ==
    \/ KeyEvent
    \/ Tick(MotionTicks)

SpecMotion == InitMotion /\ [][NextMotion]_vars

(***************************************************************************)
(* One direction key held on every tick.                                   *)
(***************************************************************************)
InitHold == \E k \in KeyCodes : Start({k}, <<FlatColorImg, FlatHeightImg>>)

NextHold == Tick(HoldTicks)

SpecHold == InitHold /\ [][NextHold]_vars

(***************************************************************************)
(* Camera::update from any velocity, no key held.                          *)
(***************************************************************************)
\* 5.0, 7.0, -7.0, 0.25, -2.5 and 0.0
VelocityInputs ==
    {IntToF32(5), IntToF32(7), F32Neg(IntToF32(7)),
     F32Div(IntToF32(1), IntToF32(4)), F32Neg(F32Div(IntToF32(5), IntToF32(2))),
     IntToF32(0)}

InitUpdate ==
    /\ \E v \in [0..2 -> VelocityInputs] : camera = [Camera_new EXCEPT !.velocity = v]
    /\ terrain_map = TerrainMap_new(FlatColorImg, FlatHeightImg)
    /\ held = {}
    /\ frame = ClearedFrame
    /\ pc = "idle"
    /\ NoLocals
    /\ ticks = 0
    /\ key_events = 0
    /\ draws = 0

NextUpdate == Tick(MaxUpdates)

SpecUpdate == InitUpdate /\ [][NextUpdate]_vars

(***************************************************************************)
(* Properties                                                              *)
(***************************************************************************)
\* ticks a held key needs to bring the velocity to its steady state
SteadyTicks == 100

\* updates after which the position is said to have settled
SettleTicks == 150

Axes == 0..2

Pixels == 0..(SCREEN_WIDTH * SCREEN_HEIGHT - 1)

\* the R, G and B bytes of the framebuffer's pixel in column x of row y
PixelRGB(fr, x, y) ==
    LET p == 4 * (SCREEN_WIDTH * y + x)
    IN  <<fr[p + R], fr[p + G], fr[p + B]>>

IsFlat(tm) ==
    /\ \A i \in DOMAIN tm.height_map : tm.height_map[i] = FLAT_HEIGHT
    /\ \A i \in DOMAIN tm.color_map : tm.color_map[i] = tm.color_map[i % 4]

\* the ray position is a texel of the map
InsideMap ==
    /\ ray_pos[X] >= 0
    /\ ray_pos[Y] >= 0
    /\ F32ToUsize(ray_pos[X]) < terrain_map.map_dimensions[X]
    /\ F32ToUsize(ray_pos[Y]) < terrain_map.map_dimensions[Y]

\* C1: after the first draw, from the default camera over a flat map of one
\* colour, every column of the frame holds the map's colour in rows
\* [0, FLAT_HEIGHT) and the sky colour of the cleared frame in the rows below.
C1_FlatTerrainFrame ==
    (pc = "idle" /\ draws = 1 /\ ticks = 0 /\ IsFlat(terrain_map)) =>
        \A x \in 0..(SCREEN_WIDTH - 1), y \in 0..(SCREEN_HEIGHT - 1) :
            PixelRGB(frame, x, y) =
                IF y < FLAT_HEIGHT
                THEN <<terrain_map.color_map[R], terrain_map.color_map[G],
                       terrain_map.color_map[B]>>
                ELSE <<SkyPixel[1], SkyPixel[2], SkyPixel[3]>>

\* C2: after any sequence of ticks, every index the ray-march reads the two
\* rasters at lies inside them, and draw never panics.
C2_SamplingInBounds ==
    /\ pc # "panicked"
    /\ pc = "test" =>
          /\ map_offset \in DOMAIN terrain_map.height_map
          /\ (Visible(height_on_screen, max_projected_height) /\ height_on_screen > 0) =>
                 \A c \in {R, G, B} : map_offset + c \in DOMAIN terrain_map.color_map

\* C3: after every update, the magnitude of the velocity on every axis is at
\* most max_speed, for positive and negative velocities alike.
C3_VelocityBound ==
    \A i \in Axes : Abs(camera.velocity[i]) <= camera.max_speed

C3_Witness ==
    /\ ticks > 0
    /\ \E i \in Axes : camera.velocity[i] < F32Neg(IntToF32(2))

\* the axis a key accelerates
AxisOf(k) ==
    IF k \in {"KeyW", "KeyS"} THEN Z ELSE IF k \in {"KeyA", "KeyD"} THEN X ELSE Y

\* 0.9 * max_speed
DampedMaxSpeed == F32Mul(Camera_new.max_speed, DAMPING)

\* 2.25 = 0.9 * acceleration / (1 - 0.9)
SteadySpeed == F32Div(IntToF32(9), IntToF32(4))

Near(u, v, tol) == Abs(F32Sub(u, v)) <= tol

\* C4 as stated: with one key held on every tick, the speed on its axis
\* settles at 0.9 * max_speed = 4.5.
C4_SteadyStateMaxSpeed ==
    ticks >= SteadyTicks =>
        \A k \in held :
            Near(Abs(camera.velocity[AxisOf(k)]), DampedMaxSpeed,
                 F32Div(IntToF32(1), IntToF32(100)))

\* C4 as amended: with one key held on every tick, the speed on its axis
\* never exceeds 2.25 = 0.9 * acceleration / (1 - 0.9), so it never reaches
\* the max_speed clamp, and after SteadyTicks ticks it is within 1e-4 of 2.25.
C4_SteadyStateAmended ==
    \A k \in held :
        /\ Abs(camera.velocity[AxisOf(k)]) <= SteadySpeed
        /\ ticks >= SteadyTicks =>
              Near(Abs(camera.velocity[AxisOf(k)]), SteadySpeed,
                   F32Div(IntToF32(1), IntToF32(10000)))

C4_Witness ==
    /\ ticks >= SteadyTicks
    /\ held = {"KeyD"}
    /\ camera.velocity[X] > F32Div(IntToF32(224), IntToF32(100))

\* C5: within one column, once a sample of the largest height (BYTE_MAX) has
\* been painted, no farther sample of that column paints a pixel.
C5_SpikeOccludes ==
    [][(pc = "test" /\ max_projected_height = BYTE_MAX) =>
          ~(pc' = "sample" /\ max_projected_height' > 0
            /\ max_projected_height' < max_projected_height)]_vars

\* the rows [0, h) of new_frame hold the colour read at map_offset
RowsPainted(nf, h) ==
    \A y \in 0..(h - 1), c \in {R, G, B} :
        nf[SCREEN_WIDTH * y + c] = terrain_map.color_map[map_offset + c]

C7_FrameShape ==
    (pc = "idle" /\ draws > 0) =>
        /\ DOMAIN frame = 0..(SCREEN_WIDTH * SCREEN_HEIGHT * 4 - 1)
        /\ \A p \in Pixels :
              /\ frame[4 * p + A] = BYTE_MAX
              /\ frame[4 * p + R] = frame[4 * p + G]
              /\ frame[4 * p + G] = frame[4 * p + B]

C7_Witness ==
    /\ pc = "idle"
    /\ draws > 0
    /\ ticks > 0
    /\ \E p \in Pixels : frame[4 * p + R] # 0

\* |10 * v' - 9 * v| on the significands: v' is 0.9 * v up to rounding
IsDamped(v, w) ==
    /\ Sgn(w) = Sgn(v) \/ v = 0
    /\ F32Exp(v) - F32Exp(w) \in {0, 1}
    /\ Abs(10 * F32Man(w) - 9 * F32Man(v) * 2^(F32Exp(v) - F32Exp(w))) <= 16

\* C8: with no key held, each update multiplies a velocity not above
\* max_speed by 0.9 (to the rounding of f32), the speed strictly falls
\* while it is not 0, and from SettleTicks updates on the position no
\* longer moves: it is at its limit.
C8_DampingConvergence ==
    [][\A i \in Axes :
          /\ camera.velocity[i] <= camera.max_speed =>
                 IsDamped(camera.velocity[i], camera'.velocity[i])
          /\ camera.velocity[i] # 0 =>
                 Abs(camera'.velocity[i]) < Abs(camera.velocity[i])
          /\ ticks >= SettleTicks =>
                 /\ camera'.position[i] = camera.position[i]
                 /\ Abs(camera'.velocity[i]) < F32Div(IntToF32(1), IntToF32(100000))]_vars

C8_Witness ==
    /\ ticks > SettleTicks
    /\ camera.velocity[X] > 0
    /\ camera.position[X] > IntToF32(START_POS + 44)

\* C9: one update clamps the velocity from above only, then damps it, then
\* adds the damped velocity to the position, on every axis; a velocity below
\* -max_speed stays below -0.9 * max_speed; the other fields are unchanged.
C9_UpdateOrder ==
    [][\A i \in Axes :
          /\ camera'.velocity[i] =
                 F32Mul(IF camera.velocity[i] > camera.max_speed
                        THEN camera.max_speed ELSE camera.velocity[i], DAMPING)
          /\ camera'.position[i] = F32Add(camera.position[i], camera'.velocity[i])
          /\ camera.velocity[i] < F32Neg(camera.max_speed) =>
                 camera'.velocity[i] < F32Neg(DampedMaxSpeed)
          /\ camera'.rotation = camera.rotation
          /\ camera'.far_clip = camera.far_clip
          /\ camera'.acceleration = camera.acceleration
          /\ camera'.max_speed = camera.max_speed]_vars

C9_Witness ==
    /\ ticks = 1
    /\ camera.velocity[X] = DampedMaxSpeed
    /\ camera.velocity[Y] < F32Neg(IntToF32(6))
    /\ camera.position[X] = F32Add(IntToF32(START_POS), DampedMaxSpeed)

\* C10: at every step whose ray position is a texel (x, y) of the map, the
\* height used is a sample of texel width * y + x of the height raster and
\* the colour painted is the R, G, B of that texel of the colour raster.
C10_SampleAddressing ==
    (pc = "test" /\ InsideMap) =>
        LET t == terrain_map.map_dimensions[X] * F32ToUsize(ray_pos[Y])
                     + F32ToUsize(ray_pos[X])
        IN  /\ \E c \in 0..3 : height_on_screen = terrain_map.height_map[4 * t + c]
            /\ \A c \in {R, G, B} :
                   terrain_map.color_map[map_offset + c] = terrain_map.color_map[4 * t + c]
====
